---- MODULE Spec2Model ----
(***************************************************************************)
(* Model of python_framework/db/connection_pool.py: the connection         *)
(* rotation (ConnectionCycle + AtomicInt), the connection handle           *)
(* (WaitableConnection), the pool (ConnectionPool) and the pool registry   *)
(* (ConnectionPool.POOLS, a ThreadSafeCache).                              *)
(*                                                                         *)
(* Threads are Python threads: every access to shared state (a list read,  *)
(* a lock operation, an AtomicInt operation) is one atomic step, and steps *)
(* of different threads interleave freely.  AtomicInt operations run under *)
(* the counter's own lock and contain no blocking call, so each is one     *)
(* atomic step.                                                            *)
(***************************************************************************)
EXTENDS Integers, Sequences, FiniteSets, TLC

\* ---------------------------------------------------------------- bounds
MaxHandles == 3
MaxCalls == 5
NumKeys == 2

\* Two threads: the least number that races, and what the state space allows.
Threads == {1, 2}
Handles == 1..MaxHandles
Keys == 1..NumKeys

\* Python's None where a handle is expected; Lock() starts unlocked.
NoHandle == 0
Free == 0

VARIABLES
    \* ConnectionCycle
    items,      \* _items: the list of handles, in insertion order
    pointer,    \* _pointer._value
    itemsLock,  \* _items_lock: Free or the thread holding it
    \* threads
    pc,         \* position of each thread
    op,         \* the rotation operation a thread is running
    rpc,        \* where a rotation operation returns to
    arg,        \* argument of the operation: a handle, an index or an endpoint key
    lmax,       \* local: the ceiling passed to next / the pointer read by delete
    lidx,       \* local: the index about to be used on the list
    out,        \* outcome of the last operation: a kind of value or an exception
    ret,        \* the handle (or the pool) returned when out = "value"
    cur,        \* the handle get_connection gave the thread (NoHandle: none)
    \* history of the sequential runs
    ncyc,       \* cycle() calls completed since the last add/delete
    base,       \* cursor value when the last add/delete completed
    delcur,     \* some completed deletion removed the entry at the cursor
    got,        \* handles returned by get_connection in a run of sequential calls
    \* ConnectionPool and its WaitableConnections
    poolLock,   \* ConnectionPool._lock: Free or the thread holding it
    hlock,      \* WaitableConnection._lock of each handle: Free or the holder
    inUse,      \* WaitableConnection._in_use
    closed,     \* the physical connection of the handle reports closed
    txn,        \* WaitableConnection._transaction: none, or a transaction open or ended
    nhandles,   \* WaitableConnections constructed so far (they are 1..nhandles)
    factoryUp,  \* engine.connect() can open a physical connection
    \* ConnectionPool.POOLS
    registry,   \* POOLS._cache: the pool stored under each endpoint key, 0: none
    nbuilt,     \* ConnectionPool objects constructed so far for each key
    engine      \* ConnectionPool._engine: 0 for None, n for the n-th engine built

rotVars == <<items, pointer, itemsLock>>
thrVars == <<pc, op, rpc, arg, lmax, lidx, out, ret, cur>>
histVars == <<ncyc, base, delcur, got>>
poolVars == <<poolLock, hlock, inUse, closed, txn, nhandles, factoryUp>>
regVars == <<registry, nbuilt, engine>>
vars == <<rotVars, thrVars, histVars, poolVars, regVars>>

\* What the steps of the rotation leave alone.
ctxVars == <<histVars, cur, poolVars, regVars>>

\* ------------------------------------------------------- pure operators

\* Python list indexing: i is accepted iff -len <= i < len.
PyInRange(s, i) == -Len(s) <= i /\ i < Len(s)
PyGetFirst(s, i) == s[1]
PyGet(s, i) == IF i >= 0 THEN s[i + 1] ELSE s[Len(s) + i + 1]

\* The index a Python index denotes, 0-based.
PyNorm(s, i) == IF i >= 0 THEN i ELSE Len(s) + i

\* del s[i] for a valid non-negative i.
RemoveAt(s, i) == [k \in 1..(Len(s) - 1) |-> IF k <= i THEN s[k] ELSE s[k + 1]]

\* The search loop of ConnectionCycle.delete: first 0-based index of h, or -1.
IndexOf(s, h) ==
    IF \E k \in 1..Len(s) : s[k] = h
    THEN (CHOOSE k \in 1..Len(s) : s[k] = h /\ \A j \in 1..(k - 1) : s[j] # h) - 1
    ELSE -1

\* AtomicInt.next(max): the value the counter holds after the call.
NextValCeilingIsCount(v, max) == IF v + 1 > max + 1 THEN 0 ELSE v + 1
NextVal(v, max) == IF v + 1 > max THEN 0 ELSE v + 1

\* The cursor adjustment of _delete_by_index: v is the counter's value
\* when set/dec runs, p the value read earlier by get(), n the list length.
AdjustPointerNever(v, p, index, n) == v
AdjustPointer(v, p, index, n) ==
    IF p >= index
    THEN IF p >= n - 1 THEN 0 ELSE v - 1
    ELSE v

\* ------------------------------------------------------------ rotation

RotInit ==
    /\ items = <<>>
    /\ pointer = 0
    /\ itemsLock = Free

ThrInit ==
    /\ pc = [t \in Threads |-> "idle"]
    /\ op = [t \in Threads |-> "none"]
    /\ rpc = [t \in Threads |-> "done"]
    /\ arg = [t \in Threads |-> 0]
    /\ lmax = [t \in Threads |-> 0]
    /\ lidx = [t \in Threads |-> 0]
    /\ out = [t \in Threads |-> "none"]
    /\ ret = [t \in Threads |-> NoHandle]
    /\ cur = [t \in Threads |-> NoHandle]

HistInit ==
    /\ ncyc = 0
    /\ base = 0
    /\ delcur = FALSE
    /\ got = <<>>

\* Handles some thread is about to append.
BeingAdded == {arg[t] : t \in {u \in Threads : op[u] = "add"}}
InRotation == {items[k] : k \in 1..Len(items)}

\* A rotation operation ends: the outcome is stored and control goes back
\* to the caller (rpc), with the list lock released by the caller of Finish
\* when it was held.
Finish(t, kind, h) ==
    /\ pc' = [pc EXCEPT ![t] = rpc[t]]
    /\ out' = [out EXCEPT ![t] = kind]
    /\ ret' = [ret EXCEPT ![t] = h]

\* ConnectionCycle.add(connection)
CallAdd(t) ==
    /\ pc[t] = "idle"
    /\ \E h \in Handles \ (InRotation \cup BeingAdded) :
          arg' = [arg EXCEPT ![t] = h]
    /\ op' = [op EXCEPT ![t] = "add"]
    /\ pc' = [pc EXCEPT ![t] = "acquire"]
    /\ rpc' = [rpc EXCEPT ![t] = "done"]
    /\ out' = [out EXCEPT ![t] = "none"]
    /\ UNCHANGED <<rotVars, lmax, lidx, ret, ctxVars>>

\* ConnectionCycle.delete(connection)
CallDelete(t) ==
    /\ pc[t] = "idle"
    /\ \E h \in Handles : arg' = [arg EXCEPT ![t] = h]
    /\ op' = [op EXCEPT ![t] = "delete"]
    /\ pc' = [pc EXCEPT ![t] = "acquire"]
    /\ rpc' = [rpc EXCEPT ![t] = "done"]
    /\ out' = [out EXCEPT ![t] = "none"]
    /\ UNCHANGED <<rotVars, lmax, lidx, ret, ctxVars>>

\* ConnectionCycle.delete_by_index(index), index a natural number
CallDeleteByIndex(t) ==
    /\ pc[t] = "idle"
    /\ \E i \in 0..MaxHandles : arg' = [arg EXCEPT ![t] = i]
    /\ op' = [op EXCEPT ![t] = "delete_by_index"]
    /\ pc' = [pc EXCEPT ![t] = "acquire"]
    /\ rpc' = [rpc EXCEPT ![t] = "done"]
    /\ out' = [out EXCEPT ![t] = "none"]
    /\ UNCHANGED <<rotVars, lmax, lidx, ret, ctxVars>>

\* ConnectionCycle.peek()
CallPeek(t) ==
    /\ pc[t] = "idle"
    /\ op' = [op EXCEPT ![t] = "peek"]
    /\ pc' = [pc EXCEPT ![t] = "pk_len"]
    /\ rpc' = [rpc EXCEPT ![t] = "done"]
    /\ out' = [out EXCEPT ![t] = "none"]
    /\ UNCHANGED <<rotVars, arg, lmax, lidx, ret, ctxVars>>

\* ConnectionCycle.cycle()
CallCycle(t) ==
    /\ pc[t] = "idle"
    /\ op' = [op EXCEPT ![t] = "cycle"]
    /\ pc' = [pc EXCEPT ![t] = "cy_len"]
    /\ rpc' = [rpc EXCEPT ![t] = "done"]
    /\ out' = [out EXCEPT ![t] = "none"]
    /\ UNCHANGED <<rotVars, arg, lmax, lidx, ret, ctxVars>>

\* `with self._items_lock:` entered by add, delete, delete_by_index and by
\* cycle when it saw the lock held: a blocking acquire.
AfterAcquire(o) ==
    CASE o = "add" -> "ad_append"
      [] o = "cycle" -> "cy_max"
      [] OTHER -> "dl_get"

AcquireItemsLock(t) ==
    /\ pc[t] = "acquire"
    /\ itemsLock = Free
    /\ itemsLock' = t
    /\ pc' = [pc EXCEPT ![t] = AfterAcquire(op[t])]
    /\ UNCHANGED <<items, pointer, op, rpc, arg, lmax, lidx, out, ret, ctxVars>>

\* self._items.append(connection)
AddAppend(t) ==
    /\ pc[t] = "ad_append"
    /\ items' = Append(items, arg[t])
    /\ pc' = [pc EXCEPT ![t] = "release"]
    /\ out' = [out EXCEPT ![t] = "None"]
    /\ UNCHANGED <<pointer, itemsLock, op, rpc, arg, lmax, lidx, ret, ctxVars>>

\* The index delete/delete_by_index work on: the search result or the argument.
DeleteIndex(t) == IF op[t] = "delete" THEN IndexOf(items, arg[t]) ELSE arg[t]

\* delete: the search; _delete_by_index: the bounds check and pointer.get().
\* The list cannot change while this thread holds the list lock, so the
\* search, the check and the read of the counter are one step.
DeleteGet(t) ==
    /\ pc[t] = "dl_get"
    /\ LET index == DeleteIndex(t) IN
       IF index = -1
       THEN /\ pc' = [pc EXCEPT ![t] = "release"]
            /\ out' = [out EXCEPT ![t] = "False"]
            /\ UNCHANGED <<lmax, lidx>>
       ELSE IF index >= Len(items)
       THEN /\ pc' = [pc EXCEPT ![t] = "release"]
            /\ out' = [out EXCEPT ![t] = "None"]
            /\ UNCHANGED <<lmax, lidx>>
       ELSE /\ lidx' = [lidx EXCEPT ![t] = index]
            /\ lmax' = [lmax EXCEPT ![t] = pointer]
            /\ pc' = [pc EXCEPT ![t] = IF pointer >= index THEN "dl_adjust" ELSE "dl_del"]
            /\ UNCHANGED out
    /\ UNCHANGED <<rotVars, op, rpc, arg, ret, ctxVars>>

\* self._pointer.set(0) or self._pointer.dec()
DeleteAdjust(t) ==
    /\ pc[t] = "dl_adjust"
    /\ pointer' = AdjustPointer(pointer, lmax[t], lidx[t], Len(items))
    /\ pc' = [pc EXCEPT ![t] = "dl_del"]
    /\ UNCHANGED <<items, itemsLock, op, rpc, arg, lmax, lidx, out, ret, ctxVars>>

\* conn = self._items[index]; del self._items[index]
DeleteDel(t) ==
    /\ pc[t] = "dl_del"
    /\ items' = RemoveAt(items, lidx[t])
    /\ pc' = [pc EXCEPT ![t] = "release"]
    /\ out' = [out EXCEPT ![t] = IF op[t] = "delete" THEN "True" ELSE "None"]
    /\ UNCHANGED <<pointer, itemsLock, op, rpc, arg, lmax, lidx, ret, ctxVars>>

\* Leaving `with self._items_lock:` (on return or on an exception).
ReleaseItemsLock(t) ==
    /\ pc[t] = "release"
    /\ itemsLock' = Free
    /\ pc' = [pc EXCEPT ![t] = rpc[t]]
    /\ UNCHANGED <<items, pointer, op, rpc, arg, lmax, lidx, out, ret, ctxVars>>

\* peek: if len(self._items) == 0: return None
PeekLen(t) ==
    /\ pc[t] = "pk_len"
    /\ IF Len(items) = 0
       THEN Finish(t, "None", NoHandle)
       ELSE /\ pc' = [pc EXCEPT ![t] = "pk_get"]
            /\ UNCHANGED <<out, ret>>
    /\ UNCHANGED <<rotVars, op, rpc, arg, lmax, lidx, ctxVars>>

\* peek: self._pointer.get()
PeekGet(t) ==
    /\ pc[t] = "pk_get"
    /\ lidx' = [lidx EXCEPT ![t] = pointer]
    /\ pc' = [pc EXCEPT ![t] = "pk_index"]
    /\ UNCHANGED <<rotVars, op, rpc, arg, lmax, out, ret, ctxVars>>

\* peek: self._items[...]
PeekIndex(t) ==
    /\ pc[t] = "pk_index"
    /\ IF PyInRange(items, lidx[t])
       THEN Finish(t, "value", PyGet(items, lidx[t]))
       ELSE Finish(t, "IndexError", NoHandle)
    /\ lidx' = [lidx EXCEPT ![t] = 0]
    /\ UNCHANGED <<rotVars, op, rpc, arg, lmax, ctxVars>>

\* cycle: if len(self._items) == 0: return None
CycleLen(t) ==
    /\ pc[t] = "cy_len"
    /\ IF Len(items) = 0
       THEN Finish(t, "None", NoHandle)
       ELSE /\ pc' = [pc EXCEPT ![t] = "cy_locked"]
            /\ UNCHANGED <<out, ret>>
    /\ UNCHANGED <<rotVars, op, rpc, arg, lmax, lidx, ctxVars>>

\* cycle: if self._items_lock.locked(): wait for it, else go on without it
CycleLocked(t) ==
    /\ pc[t] = "cy_locked"
    /\ pc' = [pc EXCEPT ![t] = IF itemsLock # Free THEN "acquire" ELSE "cy_max"]
    /\ UNCHANGED <<rotVars, op, rpc, arg, lmax, lidx, out, ret, ctxVars>>

\* _cycle: len(self._items) - 1
CycleMax(t) ==
    /\ pc[t] = "cy_max"
    /\ lmax' = [lmax EXCEPT ![t] = Len(items) - 1]
    /\ pc' = [pc EXCEPT ![t] = "cy_next"]
    /\ UNCHANGED <<rotVars, op, rpc, arg, lidx, out, ret, ctxVars>>

\* _cycle: self._pointer.next(max)
CycleNext(t) ==
    /\ pc[t] = "cy_next"
    /\ lidx' = [lidx EXCEPT ![t] = pointer]
    /\ pointer' = NextVal(pointer, lmax[t])
    /\ pc' = [pc EXCEPT ![t] = "cy_index"]
    /\ UNCHANGED <<items, itemsLock, op, rpc, arg, lmax, out, ret, ctxVars>>

\* _cycle: self._items[...]; the list lock, when held, is released next
CycleIndex(t) ==
    /\ pc[t] = "cy_index"
    /\ out' = [out EXCEPT ![t] = IF PyInRange(items, lidx[t]) THEN "value" ELSE "IndexError"]
    /\ ret' = [ret EXCEPT ![t] = IF PyInRange(items, lidx[t]) THEN PyGet(items, lidx[t]) ELSE NoHandle]
    /\ pc' = [pc EXCEPT ![t] = IF itemsLock = t THEN "release" ELSE rpc[t]]
    /\ lmax' = [lmax EXCEPT ![t] = 0]
    /\ lidx' = [lidx EXCEPT ![t] = 0]
    /\ UNCHANGED <<rotVars, op, rpc, arg, ctxVars>>

\* The caller takes the result; the thread is ready for its next call.
ClearThread(t) ==
    /\ pc' = [pc EXCEPT ![t] = "idle"]
    /\ op' = [op EXCEPT ![t] = "none"]
    /\ arg' = [arg EXCEPT ![t] = 0]
    /\ lmax' = [lmax EXCEPT ![t] = 0]
    /\ lidx' = [lidx EXCEPT ![t] = 0]
    /\ out' = [out EXCEPT ![t] = "none"]
    /\ ret' = [ret EXCEPT ![t] = NoHandle]
    /\ cur' = [cur EXCEPT ![t] = NoHandle]
    /\ rpc' = [rpc EXCEPT ![t] = "done"]
    /\ UNCHANGED <<rotVars, poolVars, regVars>>

Return(t) ==
    /\ pc[t] = "done"
    /\ ClearThread(t)
    /\ UNCHANGED histVars

\* A deletion that removed an entry removed the one at the cursor: the
\* list held Len(items) + 1 entries when the cursor (lmax) was read.
DeletedAtCursor(t) ==
    /\ op[t] \in {"delete", "delete_by_index"}
    /\ out[t] = IF op[t] = "delete" THEN "True" ELSE "None"
    /\ pc[t] = "done"
    /\ lidx[t] = (IF lmax[t] >= 0 THEN lmax[t] ELSE Len(items) + 1 + lmax[t])

\* Return in a sequential run, recording the history the properties use.
SeqReturn(t) ==
    /\ pc[t] = "done"
    /\ ClearThread(t)
    /\ UNCHANGED got
    /\ IF op[t] = "cycle"
       THEN /\ ncyc' = (IF ncyc < MaxCalls THEN ncyc + 1 ELSE ncyc)
            /\ UNCHANGED <<base, delcur>>
       ELSE IF op[t] = "peek"
       THEN UNCHANGED <<ncyc, base, delcur>>
       ELSE /\ ncyc' = 0
            /\ base' = pointer
            /\ delcur' = (delcur \/ DeletedAtCursor(t))

\* The steps of add, peek and cycle, and of the list lock.
RotGrowStep(t) ==
    \/ AcquireItemsLock(t)
    \/ AddAppend(t)
    \/ ReleaseItemsLock(t)
    \/ PeekLen(t)
    \/ PeekGet(t)
    \/ PeekIndex(t)
    \/ CycleLen(t)
    \/ CycleLocked(t)
    \/ CycleMax(t)
    \/ CycleNext(t)
    \/ CycleIndex(t)

\* The steps of delete and delete_by_index.
RotDeleteStep(t) ==
    \/ DeleteGet(t)
    \/ DeleteAdjust(t)
    \/ DeleteDel(t)

RotStep(t) == RotGrowStep(t) \/ RotDeleteStep(t)

RotCall(t) ==
    \/ CallAdd(t)
    \/ CallDelete(t)
    \/ CallDeleteByIndex(t)
    \/ CallPeek(t)
    \/ CallCycle(t)

\* A rotation used on its own: no pool around it.
NoPool ==
    /\ poolLock = Free
    /\ hlock = [h \in Handles |-> Free]
    /\ inUse = [h \in Handles |-> FALSE]
    /\ closed = [h \in Handles |-> FALSE]
    /\ txn = [h \in Handles |-> "none"]
    /\ nhandles = 0
    /\ engine = 0
    /\ factoryUp = TRUE

RegInit ==
    /\ registry = [k \in Keys |-> 0]
    /\ nbuilt = [k \in Keys |-> 0]

\* One thread using a rotation: no concurrent mutation.
SeqInit == RotInit /\ ThrInit /\ HistInit /\ NoPool /\ RegInit
SeqNext == RotCall(1) \/ RotStep(1) \/ SeqReturn(1)
SpecSeq == SeqInit /\ [][SeqNext]_vars

\* Several threads using one rotation concurrently.
RotNext == \E t \in Threads : RotCall(t) \/ RotStep(t) \/ Return(t)
SpecRot == SeqInit /\ [][RotNext]_vars

\* ------------------------------------------------------------- counter

MaxCeiling == 3

\* Values a caller gives the counter with set().
CounterValues == -1..(MaxCeiling + 1)

\* What a call on the counter leaves alone.
counterCtx == <<items, itemsLock, pc, rpc, arg, out, ret, ctxVars>>

\* AtomicInt.next(max) with max = c: returns the value held, then advances.
CounterNext(c) ==
    /\ op' = [op EXCEPT ![1] = "next"]
    /\ lmax' = [lmax EXCEPT ![1] = c]
    /\ lidx' = [lidx EXCEPT ![1] = pointer]
    /\ pointer' = NextVal(pointer, c)
    /\ UNCHANGED counterCtx

\* AtomicInt.set(value)
CounterSet(v) ==
    /\ op' = [op EXCEPT ![1] = "set"]
    /\ pointer' = v
    /\ UNCHANGED <<lmax, lidx, counterCtx>>

\* AtomicInt.inc()
CounterInc ==
    /\ pointer <= MaxCeiling
    /\ op' = [op EXCEPT ![1] = "inc"]
    /\ pointer' = pointer + 1
    /\ UNCHANGED <<lmax, lidx, counterCtx>>

\* AtomicInt.dec()
CounterDec ==
    /\ pointer >= 0
    /\ op' = [op EXCEPT ![1] = "dec"]
    /\ pointer' = pointer - 1
    /\ UNCHANGED <<lmax, lidx, counterCtx>>

\* One AtomicInt, from AtomicInt(): value 0.
CounterStep ==
    \/ \E c \in 0..MaxCeiling : CounterNext(c)
    \/ \E v \in CounterValues : CounterSet(v)
    \/ CounterInc
    \/ CounterDec
SpecCounter == SeqInit /\ [][CounterStep]_vars

\* ---------------------------------------------------------------- pool

MaxPoolSize == 2
InitialPoolSize == 1

Min(a, b) == IF a <= b THEN a ELSE b

\* The pool as ConnectionPool.initialize publishes it: create_connection
\* ran initial_pool_size times, each call past the cap being a cycle().
PoolInit ==
    /\ items = [k \in 1..Min(InitialPoolSize, MaxPoolSize) |-> k]
    /\ pointer = (IF InitialPoolSize <= MaxPoolSize THEN 0
                  ELSE (InitialPoolSize - MaxPoolSize) % MaxPoolSize)
    /\ itemsLock = Free
    /\ poolLock = Free
    /\ hlock = [h \in Handles |-> Free]
    /\ inUse = [h \in Handles |-> FALSE]
    /\ closed = [h \in Handles |-> FALSE]
    /\ txn = [h \in Handles |-> "none"]
    /\ nhandles = Min(InitialPoolSize, MaxPoolSize)
    /\ factoryUp = TRUE
    /\ engine = 1

\* Calling a rotation operation from the pool: it returns to `back`.
CallRot(t, o, start, back) ==
    /\ op' = [op EXCEPT ![t] = o]
    /\ pc' = [pc EXCEPT ![t] = start]
    /\ rpc' = [rpc EXCEPT ![t] = back]

Goto(t, label) == pc' = [pc EXCEPT ![t] = label]

\* TransactionManager.__enter__: ConnectionPool.get_pooled_connection(...)
CallGetConnection(t) ==
    /\ pc[t] = "idle"
    /\ Goto(t, "gc_empty")
    /\ UNCHANGED <<rotVars, op, rpc, arg, lmax, lidx, out, ret, cur, histVars, regVars, poolVars>>

\* get_connection: self._connection_cycle.size() == 0
GetEmpty(t) ==
    /\ pc[t] = "gc_empty"
    /\ Goto(t, IF Len(items) = 0 THEN "pl_acquire" ELSE "gc_size")
    /\ op' = [op EXCEPT ![t] = IF Len(items) = 0 THEN "create" ELSE op[t]]
    /\ UNCHANGED <<rotVars, rpc, arg, lmax, lidx, out, ret, cur, histVars, regVars, poolVars>>

\* get_connection: the pool is smaller than the max size
BelowMaxNever(n) == FALSE
BelowMax(n) == n < MaxPoolSize

\* get_connection: self._connection_cycle.size() < self._max_pool_size,
\* then peek() when it is, cycle() when it is not
GetSize(t) ==
    /\ pc[t] = "gc_size"
    /\ IF BelowMax(Len(items))
       THEN CallRot(t, "peek", "pk_len", "gc_in_use")
       ELSE CallRot(t, "cycle", "cy_len", "gc_return")
    /\ UNCHANGED <<rotVars, arg, lmax, lidx, out, ret, cur, histVars, regVars, poolVars>>

\* WaitableConnection.in_use
in_use_always(h) == TRUE
in_use(h) == inUse[h]

\* get_connection: peek().in_use(); None has no in_use
GetInUse(t) ==
    /\ pc[t] = "gc_in_use"
    /\ CASE out[t] = "None" ->
              /\ Goto(t, "gc_return")
              /\ out' = [out EXCEPT ![t] = "AttributeError"]
              /\ UNCHANGED <<op, rpc>>
         [] out[t] = "IndexError" ->
              /\ Goto(t, "gc_return")
              /\ UNCHANGED <<op, rpc, out>>
         [] OTHER ->
              /\ IF in_use(ret[t])
                 THEN Goto(t, "gc_locked") /\ UNCHANGED <<op, rpc>>
                 ELSE CallRot(t, "cycle", "cy_len", "gc_return")
              /\ out' = [out EXCEPT ![t] = "none"]
    /\ ret' = [ret EXCEPT ![t] = NoHandle]
    /\ UNCHANGED <<rotVars, arg, lmax, lidx, cur, histVars, regVars, poolVars>>

\* get_connection: not self._lock.locked(), then grow or cycle()
GetLocked(t) ==
    /\ pc[t] = "gc_locked"
    /\ IF poolLock = Free
       THEN /\ Goto(t, "pl_acquire")
            /\ op' = [op EXCEPT ![t] = "create"]
            /\ UNCHANGED rpc
       ELSE CallRot(t, "cycle", "cy_len", "gc_return")
    /\ UNCHANGED <<rotVars, arg, lmax, lidx, out, ret, cur, histVars, regVars, poolVars>>

\* `with self._lock:` in create_connection(lock=True) and remove_connection
AcquirePoolLock(t) ==
    /\ pc[t] = "pl_acquire"
    /\ poolLock = Free
    /\ poolLock' = t
    /\ IF op[t] = "create"
       THEN Goto(t, "cc_size") /\ UNCHANGED <<op, rpc>>
       ELSE CallRot(t, "delete", "acquire", "pl_release")
    /\ UNCHANGED <<rotVars, arg, lmax, lidx, out, ret, cur, histVars, regVars,
                   hlock, inUse, closed, txn, nhandles, factoryUp>>

\* _create_connection: the pool is full
AtCapacityNever(n) == FALSE
AtCapacity(n) == n >= MaxPoolSize

\* _create_connection: if size() >= max_pool_size: return cycle()
CreateSize(t) ==
    /\ pc[t] = "cc_size"
    /\ IF AtCapacity(Len(items))
       THEN CallRot(t, "cycle", "cy_len", "pl_release")
       ELSE Goto(t, "cc_connect") /\ UNCHANGED <<op, rpc>>
    /\ UNCHANGED <<rotVars, arg, lmax, lidx, out, ret, cur, histVars, regVars, poolVars>>

\* _create_connection: self._engine.connect(), WaitableConnection(...),
\* then self._connection_cycle.add(...); connect raises when the factory
\* cannot open a connection
CreateConnect(t) ==
    /\ pc[t] = "cc_connect"
    /\ IF factoryUp
       THEN /\ nhandles < MaxHandles
            /\ nhandles' = nhandles + 1
            /\ arg' = [arg EXCEPT ![t] = nhandles + 1]
            /\ CallRot(t, "add", "acquire", "pl_release")
            /\ UNCHANGED out
       ELSE /\ Goto(t, "pl_release")
            /\ out' = [out EXCEPT ![t] = "ConnectError"]
            /\ UNCHANGED <<nhandles, arg, op, rpc>>
    /\ UNCHANGED <<rotVars, lmax, lidx, ret, cur, histVars, regVars,
                   poolLock, hlock, inUse, closed, txn, factoryUp>>

\* The same step with the pool lock kept past the end of the `with` block.
ReleasePoolLockKeeps(t) ==
    /\ pc[t] = "pl_release"
    /\ Goto(t, IF op[t] = "delete" THEN "done" ELSE "gc_return")
    /\ out' = [out EXCEPT ![t] = IF op[t] = "add" THEN "value" ELSE out[t]]
    /\ ret' = [ret EXCEPT ![t] = IF op[t] = "add" THEN arg[t] ELSE ret[t]]
    /\ arg' = [arg EXCEPT ![t] = IF op[t] = "add" THEN 0 ELSE arg[t]]
    /\ lmax' = [lmax EXCEPT ![t] = 0]
    /\ lidx' = [lidx EXCEPT ![t] = 0]
    /\ UNCHANGED <<rotVars, op, rpc, cur, histVars, regVars, poolVars>>

\* Leaving `with self._lock:`; _create_connection returns the new handle
\* (or what cycle() gave), remove_connection returns what delete gave.
ReleasePoolLock(t) ==
    /\ pc[t] = "pl_release"
    /\ poolLock' = Free
    /\ Goto(t, IF op[t] = "delete" THEN "done" ELSE "gc_return")
    /\ out' = [out EXCEPT ![t] = IF op[t] = "add" THEN "value" ELSE out[t]]
    /\ ret' = [ret EXCEPT ![t] = IF op[t] = "add" THEN arg[t] ELSE ret[t]]
    /\ arg' = [arg EXCEPT ![t] = IF op[t] = "add" THEN 0 ELSE arg[t]]
    /\ lmax' = [lmax EXCEPT ![t] = 0]
    /\ lidx' = [lidx EXCEPT ![t] = 0]
    /\ UNCHANGED <<rotVars, op, rpc, cur, histVars, regVars,
                   hlock, inUse, closed, txn, nhandles, factoryUp>>

\* get_connection returns; TransactionManager.__enter__ raises when it got
\* None, and calls start_transaction on the handle otherwise.
GetReturnTo(t) ==
    /\ pc[t] = "gc_return"
    /\ CASE out[t] = "value" ->
              /\ cur' = [cur EXCEPT ![t] = ret[t]]
              /\ Goto(t, "st_acquire")
              /\ out' = [out EXCEPT ![t] = "none"]
         [] out[t] = "None" ->
              /\ Goto(t, "done")
              /\ out' = [out EXCEPT ![t] = "NoConnection"]
              /\ UNCHANGED cur
         [] OTHER ->
              /\ Goto(t, "done")
              /\ UNCHANGED <<out, cur>>
    /\ op' = [op EXCEPT ![t] = "none"]
    /\ rpc' = [rpc EXCEPT ![t] = "done"]
    /\ ret' = [ret EXCEPT ![t] = NoHandle]
    /\ UNCHANGED <<rotVars, arg, lmax, lidx, regVars, poolVars>>

GetReturn(t) == GetReturnTo(t) /\ UNCHANGED histVars

\* The same step in a run that keeps the list of the handles returned.
GetReturnSeq(t) ==
    /\ GetReturnTo(t)
    /\ got' = (IF out[t] = "value" THEN Append(got, ret[t]) ELSE got)
    /\ UNCHANGED <<ncyc, base, delcur>>

\* threading.Lock.acquire() on a handle's lock returns only when it is free.
HandleLockFreeAlways(h) == TRUE
HandleLockFree(h) == hlock[h] = Free

\* start_transaction: self._lock.acquire(); self._in_use = True.  No
\* reader looks at both the lock and the flag, so the two writes are one step.
StartAcquire(t) ==
    /\ pc[t] = "st_acquire"
    /\ HandleLockFree(cur[t])
    /\ hlock' = [hlock EXCEPT ![cur[t]] = t]
    /\ inUse' = [inUse EXCEPT ![cur[t]] = TRUE]
    /\ Goto(t, "st_health")
    /\ UNCHANGED <<rotVars, op, rpc, arg, lmax, lidx, out, ret, cur, histVars, regVars,
                   poolLock, closed, txn, nhandles, factoryUp>>

\* start_transaction: if not self.is_healthy() and not self.self_heal()
StartHealth(t) ==
    /\ pc[t] = "st_health"
    /\ Goto(t, IF closed[cur[t]] THEN "sh_log" ELSE "st_begin")
    /\ UNCHANGED <<rotVars, op, rpc, arg, lmax, lidx, out, ret, cur, histVars, regVars, poolVars>>

\* self_heal: its first statement formats "self-healing connection..."
\* with % and an argument the string has no place for; Python raises
\* TypeError there, before the close, the factory call and the removal.
\* start_transaction has no handler: the exception reaches the caller with
\* the handle's lock held and _in_use True.
SelfHeal(t) ==
    /\ pc[t] = "sh_log"
    /\ Goto(t, "done")
    /\ out' = [out EXCEPT ![t] = "TypeError"]
    /\ UNCHANGED <<rotVars, op, rpc, arg, lmax, lidx, ret, cur, histVars, regVars, poolVars>>

\* start_transaction: self._transaction = self._connection.begin(); a
\* connection closed since the health check refuses to begin.
StartBegin(t) ==
    /\ pc[t] = "st_begin"
    /\ IF closed[cur[t]]
       THEN /\ Goto(t, "done")
            /\ out' = [out EXCEPT ![t] = "ResourceClosedError"]
            /\ UNCHANGED txn
       ELSE /\ Goto(t, "in_txn")
            /\ UNCHANGED out
            /\ txn' = [txn EXCEPT ![cur[t]] = "open"]
    /\ UNCHANGED <<rotVars, op, rpc, arg, lmax, lidx, ret, cur, histVars, regVars,
                   poolLock, hlock, inUse, closed, nhandles, factoryUp>>

\* commit_transaction: self._transaction.commit() raises on a connection
\* that has been closed under the transaction; commit_transaction has no
\* handler and no finally, so the call ends there, before
\* `self._in_use = False` and `self._lock.release()`.
CommitRaises(t) ==
    /\ pc[t] = "in_txn"
    /\ closed[cur[t]]
    /\ out' = [out EXCEPT ![t] = "CommitError"]
    /\ Goto(t, "done")
    /\ UNCHANGED <<rotVars, op, rpc, arg, lmax, lidx, ret, cur, histVars, regVars, poolVars>>

\* commit_transaction: self._transaction.commit(), on a connection that is
\* still open
Commit(t) ==
    /\ pc[t] = "in_txn"
    /\ ~closed[cur[t]]
    /\ txn' = [txn EXCEPT ![cur[t]] = "ended"]
    /\ out' = [out EXCEPT ![t] = "committed"]
    /\ Goto(t, "tx_end")
    /\ UNCHANGED <<rotVars, op, rpc, arg, lmax, lidx, ret, cur, histVars, regVars,
                   poolLock, hlock, inUse, closed, nhandles, factoryUp>>

\* TransactionManager.__exit__ after an exception in the scope:
\* rollback_transaction: self._transaction.rollback()
Rollback(t) ==
    /\ pc[t] = "in_txn"
    /\ txn' = [txn EXCEPT ![cur[t]] = "ended"]
    /\ out' = [out EXCEPT ![t] = "rolledback"]
    /\ Goto(t, "tx_end")
    /\ UNCHANGED <<rotVars, op, rpc, arg, lmax, lidx, ret, cur, histVars, regVars,
                   poolLock, hlock, inUse, closed, nhandles, factoryUp>>

\* WaitableConnection.__exit__ after an exception in a `with handle:`
\* scope: self.rollback_transaction(exc_val), up to the rollback
ScopeRollback(t) ==
    /\ pc[t] = "in_txn"
    /\ txn' = [txn EXCEPT ![cur[t]] = "ended"]
    /\ out' = [out EXCEPT ![t] = "scope_rolledback"]
    /\ Goto(t, "tx_end")
    /\ UNCHANGED <<rotVars, op, rpc, arg, lmax, lidx, ret, cur, histVars, regVars,
                   poolLock, hlock, inUse, closed, nhandles, factoryUp>>

\* The release as it would be if it were made under the pool lock.
EndReleaseUnderPoolLock(t) ==
    /\ pc[t] = "tx_end"
    /\ poolLock = Free
    /\ inUse' = [inUse EXCEPT ![cur[t]] = FALSE]
    /\ hlock' = [hlock EXCEPT ![cur[t]] = Free]
    /\ out' = [out EXCEPT ![t] = IF hlock[cur[t]] = Free THEN "RuntimeError"
                                 ELSE IF out[t] = "scope_rolledback"
                                 THEN "TracebackAttributeError" ELSE out[t]]
    /\ Goto(t, "done")
    /\ UNCHANGED <<rotVars, op, rpc, arg, lmax, lidx, ret, cur, histVars, regVars,
                   poolLock, closed, txn, nhandles, factoryUp>>

\* The release without `self._in_use = False`: the lock is freed and the
\* handle stays marked busy.
EndReleaseKeepsBusy(t) ==
    /\ pc[t] = "tx_end"
    /\ hlock' = [hlock EXCEPT ![cur[t]] = Free]
    /\ out' = [out EXCEPT ![t] = IF hlock[cur[t]] = Free THEN "RuntimeError"
                                 ELSE IF out[t] = "scope_rolledback"
                                 THEN "TracebackAttributeError" ELSE out[t]]
    /\ Goto(t, "done")
    /\ UNCHANGED <<rotVars, op, rpc, arg, lmax, lidx, ret, cur, histVars, regVars,
                   poolLock, inUse, closed, txn, nhandles, factoryUp>>

\* commit_transaction / rollback_transaction: self._in_use = False;
\* self._lock.release().  No reader looks at both the flag and the lock,
\* so the two writes are one step.  WaitableConnection.__exit__ then calls
\* exc_tb.print_exc(file=stdout); a traceback object has no print_exc, so
\* AttributeError leaves __exit__ in place of the exception of the scope.
\* release() of a lock that is not held raises RuntimeError; a lock held
\* by another thread is released all the same.
EndRelease(t) ==
    /\ pc[t] = "tx_end"
    /\ inUse' = [inUse EXCEPT ![cur[t]] = FALSE]
    /\ hlock' = [hlock EXCEPT ![cur[t]] = Free]
    /\ out' = [out EXCEPT ![t] = IF hlock[cur[t]] = Free THEN "RuntimeError"
                                 ELSE IF out[t] = "scope_rolledback"
                                 THEN "TracebackAttributeError" ELSE out[t]]
    /\ Goto(t, "done")
    /\ UNCHANGED <<rotVars, op, rpc, arg, lmax, lidx, ret, cur, histVars, regVars,
                   poolLock, closed, txn, nhandles, factoryUp>>

\* ConnectionPool.remove_connection(connection), called on any handle the
\* pool has created
CallRemove(t) ==
    /\ pc[t] = "idle"
    /\ \E h \in 1..nhandles : arg' = [arg EXCEPT ![t] = h]
    /\ op' = [op EXCEPT ![t] = "remove"]
    /\ Goto(t, "pl_acquire")
    /\ UNCHANGED <<rotVars, rpc, lmax, lidx, out, ret, cur, histVars, regVars, poolVars>>

\* A handle's physical connection becomes closed.  start_transaction hands
\* the connection itself to its caller, who can close() it at any time, and
\* close_transaction closes it after releasing the handle.
ConnectionCloses ==
    /\ \E h \in 1..nhandles :
          /\ ~closed[h]
          /\ closed' = [closed EXCEPT ![h] = TRUE]
    /\ UNCHANGED <<rotVars, thrVars, histVars, regVars,
                   poolLock, hlock, inUse, txn, nhandles, factoryUp>>

\* The database stops, or starts again, accepting new connections.
FactoryChanges ==
    /\ factoryUp' = ~factoryUp
    /\ UNCHANGED <<rotVars, thrVars, histVars, regVars,
                   poolLock, hlock, inUse, closed, txn, nhandles>>

\* The steps of get_pooled_connection, up to its return.
GetBody(t) ==
    \/ GetEmpty(t)
    \/ GetSize(t)
    \/ GetInUse(t)
    \/ GetLocked(t)
    \/ AcquirePoolLock(t)
    \/ CreateSize(t)
    \/ CreateConnect(t)
    \/ ReleasePoolLock(t)

GetStep(t) == CallGetConnection(t) \/ GetBody(t)

\* The steps of start_transaction and of the commit_transaction or
\* rollback_transaction that ends the scope.
TxnBody(t) ==
    \/ StartHealth(t)
    \/ StartBegin(t)
    \/ Commit(t)
    \/ Rollback(t)
    \/ ScopeRollback(t)

ScopeStep(t) == StartAcquire(t) \/ TxnBody(t) \/ EndRelease(t)

\* The steps of a scope, of TransactionManager or of the handle itself.
TxnStep(t) == GetStep(t) \/ GetReturn(t) \/ ScopeStep(t)

\* Threads sharing one published pool through TransactionManager, with
\* connections that get closed and a database that stops accepting new ones.  In this
\* program only self_heal calls remove_connection, and self_heal raises
\* before it gets there: nothing is deleted from the rotation.
Init == PoolInit /\ ThrInit /\ HistInit /\ RegInit
Next ==
    \/ \E t \in Threads : TxnStep(t) \/ SelfHeal(t) \/ RotGrowStep(t) \/ Return(t)
    \/ ConnectionCloses
    \/ FactoryChanges
Spec == Init /\ [][Next]_vars

\* The same threads over a database that keeps accepting connections, with
\* the commit that raises because the connection was closed under its
\* transaction.
FailNext ==
    \/ \E t \in Threads :
          TxnStep(t) \/ SelfHeal(t) \/ CommitRaises(t) \/ RotGrowStep(t) \/ Return(t)
    \/ ConnectionCloses
SpecFail == Init /\ [][FailNext]_vars

\* close_transaction, called by the caller that start_transaction gave the
\* handle to: self._in_use = False; self._lock.release()
CloseRelease(t) ==
    /\ pc[t] = "in_txn"
    /\ inUse' = [inUse EXCEPT ![cur[t]] = FALSE]
    /\ hlock' = [hlock EXCEPT ![cur[t]] = Free]
    /\ Goto(t, "ct_close")
    /\ UNCHANGED <<rotVars, op, rpc, arg, lmax, lidx, out, ret, cur, histVars, regVars,
                   poolLock, closed, txn, nhandles, factoryUp>>

\* close_transaction: self._connection.close(), after the release
CloseClose(t) ==
    /\ pc[t] = "ct_close"
    /\ closed' = [closed EXCEPT ![cur[t]] = TRUE]
    /\ out' = [out EXCEPT ![t] = "closed"]
    /\ Goto(t, "done")
    /\ UNCHANGED <<rotVars, op, rpc, arg, lmax, lidx, ret, cur, histVars, regVars,
                   poolLock, hlock, inUse, txn, nhandles, factoryUp>>

\* Threads sharing one published pool, each ending its use of a handle by
\* commit_transaction, rollback_transaction or close_transaction.
CloseNext ==
    \E t \in Threads :
        \/ TxnStep(t) \/ SelfHeal(t) \/ RotGrowStep(t) \/ Return(t)
        \/ CloseRelease(t) \/ CloseClose(t)
SpecClose == Init /\ [][CloseNext]_vars

\* Threads sharing one published pool through TransactionManager over a
\* healthy database, with callers of the public remove_connection.
AdminNext ==
    \E t \in Threads : TxnStep(t) \/ CallRemove(t) \/ RotStep(t) \/ Return(t)
SpecAdmin == Init /\ [][AdminNext]_vars

\* Threads sharing one published pool over a healthy database, each
\* running scope after scope.  A thread that can take a step is scheduled
\* sooner or later; a lock gives no turn to the threads waiting for it.
HealthyStep(t) == TxnStep(t) \/ RotGrowStep(t) \/ Return(t)
HealthyNext == \E t \in Threads : HealthyStep(t)
SpecLive ==
    /\ Init
    /\ [][HealthyNext]_vars
    /\ \A t \in Threads : WF_vars(HealthyStep(t))

\* rollback_transaction() called on a handle that has no open transaction,
\* by a caller that did not start one on it.
CallStrayRollback(t) ==
    /\ pc[t] = "idle"
    /\ \E h \in 1..nhandles :
          /\ txn[h] # "open"
          /\ arg' = [arg EXCEPT ![t] = h]
    /\ op' = [op EXCEPT ![t] = "rollback"]
    /\ Goto(t, "rb_txn")
    /\ UNCHANGED <<rotVars, rpc, lmax, lidx, out, ret, cur, histVars, regVars, poolVars>>

\* rollback_transaction: self._transaction.rollback().  _transaction is
\* None on a handle that never began a transaction: AttributeError.  It is
\* never reset, so afterwards it is the last transaction, whose rollback()
\* returns when that transaction has ended ("stale") and rolls back a
\* transaction another caller has begun in the meantime ("theirs").
StrayRollbackTxn(t) ==
    /\ pc[t] = "rb_txn"
    /\ IF txn[arg[t]] = "none"
       THEN /\ Goto(t, "done")
            /\ out' = [out EXCEPT ![t] = "AttributeError"]
            /\ UNCHANGED txn
       ELSE /\ Goto(t, "rb_release")
            /\ txn' = [txn EXCEPT ![arg[t]] = "ended"]
            /\ out' = [out EXCEPT ![t] = IF txn[arg[t]] = "ended" THEN "stale"
                                         ELSE "theirs"]
    /\ UNCHANGED <<rotVars, op, rpc, arg, lmax, lidx, ret, cur, histVars, regVars,
                   poolLock, hlock, inUse, closed, nhandles, factoryUp>>

\* rollback_transaction: self._in_use = False; self._lock.release()
StrayRollbackRelease(t) ==
    /\ pc[t] = "rb_release"
    /\ inUse' = [inUse EXCEPT ![arg[t]] = FALSE]
    /\ hlock' = [hlock EXCEPT ![arg[t]] = Free]
    /\ out' = [out EXCEPT ![t] = IF hlock[arg[t]] = Free THEN "RuntimeError"
                                 ELSE "None"]
    /\ Goto(t, "done")
    /\ UNCHANGED <<rotVars, op, rpc, arg, lmax, lidx, ret, cur, histVars, regVars,
                   poolLock, closed, txn, nhandles, factoryUp>>

StrayRollbackStep(t) ==
    \/ CallStrayRollback(t)
    \/ StrayRollbackTxn(t)
    \/ StrayRollbackRelease(t)

\* Scopes over a healthy database, with callers of rollback_transaction
\* on handles that are not in a transaction.
StrayNext == \E t \in Threads : HealthyStep(t) \/ StrayRollbackStep(t)
SpecStray == Init /\ [][StrayNext]_vars

\* start_transaction, statement by statement: self._lock.acquire()
StartLock(t) ==
    /\ pc[t] = "st_acquire"
    /\ HandleLockFree(cur[t])
    /\ hlock' = [hlock EXCEPT ![cur[t]] = t]
    /\ Goto(t, "st_in_use")
    /\ UNCHANGED <<rotVars, op, rpc, arg, lmax, lidx, out, ret, cur, histVars, regVars,
                   poolLock, inUse, closed, txn, nhandles, factoryUp>>

\* start_transaction: self._in_use = True
StartInUse(t) ==
    /\ pc[t] = "st_in_use"
    /\ inUse' = [inUse EXCEPT ![cur[t]] = TRUE]
    /\ Goto(t, "st_health")
    /\ UNCHANGED <<rotVars, op, rpc, arg, lmax, lidx, out, ret, cur, histVars, regVars,
                   poolLock, hlock, closed, txn, nhandles, factoryUp>>

\* The scopes and the stray rollback_transaction calls of SpecStray, with
\* the lock and the busy flag of start_transaction written in two steps.
FlagNext ==
    \E t \in Threads :
        \/ GetStep(t) \/ GetReturn(t) \/ RotGrowStep(t) \/ Return(t)
        \/ StartLock(t) \/ StartInUse(t)
        \/ TxnBody(t) \/ EndRelease(t)
        \/ StrayRollbackStep(t)
SpecFlag == Init /\ [][FlagNext]_vars

\* Thread u is inside get_connection.
InGet(u) ==
    pc[u] \notin {"idle", "st_acquire", "st_health", "sh_log", "st_begin",
                  "in_txn", "tx_end", "rb_txn", "rb_release", "done"}

\* Sequential get_connection calls: a call starts only when no other
\* thread is inside get_connection, and no handle is taken or released
\* while one is.  Transactions still overlap.
NoOtherInGet(t) == \A u \in Threads \ {t} : ~InGet(u)
SeqCallGetConnection(t) ==
    NoOtherInGet(t) /\ Len(got) < MaxCalls /\ CallGetConnection(t)
SeqStartAcquire(t) == NoOtherInGet(t) /\ StartAcquire(t)
SeqEndRelease(t) == NoOtherInGet(t) /\ EndRelease(t)

GrowStep(t) ==
    \/ SeqCallGetConnection(t)
    \/ GetBody(t)
    \/ GetReturnSeq(t)
    \/ SeqStartAcquire(t)
    \/ TxnBody(t)
    \/ SeqEndRelease(t)
    \/ RotGrowStep(t)
    \/ Return(t)
GrowNext == \E t \in Threads : GrowStep(t)
SpecGrow == Init /\ [][GrowNext]_vars

\* ------------------------------------------------------------ registry

\* ConnectionPool.instance(connection_details); get_pooled_connection
\* starts with it
CallInstance(t) ==
    /\ pc[t] = "idle"
    /\ \E k \in Keys : arg' = [arg EXCEPT ![t] = k]
    /\ op' = [op EXCEPT ![t] = "instance"]
    /\ Goto(t, "in_check")
    /\ UNCHANGED <<rotVars, rpc, lmax, lidx, out, ret, cur, histVars, poolVars, regVars>>

\* ConnectionPool.initialize(connection_details, ...)
CallInitialize(t) ==
    /\ pc[t] = "idle"
    /\ \E k \in Keys : arg' = [arg EXCEPT ![t] = k]
    /\ op' = [op EXCEPT ![t] = "initialize"]
    /\ Goto(t, "ini_check")
    /\ UNCHANGED <<rotVars, rpc, lmax, lidx, out, ret, cur, histVars, poolVars, regVars>>

\* ThreadSafeCache.__contains__: key in self._cache, without the lock
Contains(k) == registry[k] # 0

\* instance: if connection_details.get_key() in ConnectionPool.POOLS
InstanceCheck(t) ==
    /\ pc[t] = "in_check"
    /\ Goto(t, IF Contains(arg[t]) THEN "rg_get" ELSE "ini_check")
    /\ UNCHANGED <<rotVars, op, rpc, arg, lmax, lidx, out, ret, cur, histVars, poolVars, regVars>>

\* initialize: if connection_details.get_key() in ConnectionPool.POOLS
InitializeCheck(t) ==
    /\ pc[t] = "ini_check"
    /\ Goto(t, IF Contains(arg[t]) THEN "rg_get" ELSE "ini_build")
    /\ UNCHANGED <<rotVars, op, rpc, arg, lmax, lidx, out, ret, cur, histVars, poolVars, regVars>>

\* return ConnectionPool.POOLS[key]: ThreadSafeCache.__getitem__
RegistryGet(t) ==
    /\ pc[t] = "rg_get"
    /\ out' = [out EXCEPT ![t] = "value"]
    /\ ret' = [ret EXCEPT ![t] = registry[arg[t]]]
    /\ Goto(t, "done")
    /\ UNCHANGED <<rotVars, op, rpc, arg, lmax, lidx, cur, histVars, poolVars, regVars>>

\* initialize: pool = ConnectionPool(...); pool.create_db_engine(); the
\* initial connections.  The new pool is known to this thread alone.
InitializeBuild(t) ==
    /\ pc[t] = "ini_build"
    /\ nbuilt' = [nbuilt EXCEPT ![arg[t]] = nbuilt[arg[t]] + 1]
    /\ ret' = [ret EXCEPT ![t] = nbuilt[arg[t]] + 1]
    /\ Goto(t, "ini_put")
    /\ UNCHANGED <<rotVars, op, rpc, arg, lmax, lidx, out, cur, histVars, poolVars, registry, engine>>

\* initialize: ConnectionPool.POOLS[key] = pool (ThreadSafeCache.__setitem__,
\* under the cache's write lock); return pool
InitializePut(t) ==
    /\ pc[t] = "ini_put"
    /\ registry' = [registry EXCEPT ![arg[t]] = ret[t]]
    /\ out' = [out EXCEPT ![t] = "value"]
    /\ Goto(t, "done")
    /\ UNCHANGED <<rotVars, op, rpc, arg, lmax, lidx, ret, cur, histVars, poolVars, nbuilt, engine>>

RegStep(t) ==
    \/ CallInstance(t)
    \/ CallInitialize(t)
    \/ InstanceCheck(t)
    \/ InitializeCheck(t)
    \/ RegistryGet(t)
    \/ InitializeBuild(t)
    \/ InitializePut(t)

\* Threads asking the registry for pools, from an empty registry.
RegNext == \E t \in Threads : RegStep(t) \/ Return(t)
SpecReg == SeqInit /\ [][RegNext]_vars

\* The loop of initialize without the cap of _create_connection.
FillUncapped(size, todo, max) == size + todo

\* initialize: `for i in range(initial_pool_size): pool.create_connection()`
\* on a pool of `size` handles: each _create_connection adds a handle, or
\* returns cycle() and adds nothing when size() >= max_pool_size.
Fill(size, todo, max) ==
    LET f[i \in 0..todo] ==
            IF i = 0 THEN size
            ELSE IF f[i - 1] >= max THEN f[i - 1] ELSE f[i - 1] + 1
    IN f[todo]

\* ConnectionPool.initialize(connection_details, max_pool_size,
\* initial_pool_size) with sizes of the caller's choice: a cap of one or
\* of MaxPoolSize, and no initial handle, InitialPoolSize of them, or more
\* than the cap
CallInitializeSized(t) ==
    /\ pc[t] = "idle"
    /\ \E k \in Keys : arg' = [arg EXCEPT ![t] = k]
    /\ \E m \in {1, MaxPoolSize} : lmax' = [lmax EXCEPT ![t] = m]
    /\ \E n \in {0, InitialPoolSize, MaxPoolSize + 1} : lidx' = [lidx EXCEPT ![t] = n]
    /\ op' = [op EXCEPT ![t] = "initialize"]
    /\ Goto(t, "ini_check")
    /\ UNCHANGED <<rotVars, rpc, out, ret, cur, histVars, poolVars, regVars>>

\* initialize: pool = ConnectionPool(...); pool.create_db_engine(); the
\* initial connections, over a database that accepts them.  The pool is
\* known to this thread alone; cur[t] is the size of its rotation.
\* instance() passes the sizes of the environment.
InitializeBuildSized(t) ==
    /\ pc[t] = "ini_build"
    /\ nbuilt' = [nbuilt EXCEPT ![arg[t]] = nbuilt[arg[t]] + 1]
    /\ ret' = [ret EXCEPT ![t] = nbuilt[arg[t]] + 1]
    /\ cur' = [cur EXCEPT ![t] =
                 IF op[t] = "instance" THEN Fill(0, InitialPoolSize, MaxPoolSize)
                 ELSE Fill(0, lidx[t], lmax[t])]
    /\ Goto(t, "ini_put")
    /\ UNCHANGED <<rotVars, op, rpc, arg, lmax, lidx, out, histVars, poolVars,
                   registry, engine>>

\* Threads asking the registry for pools of given sizes.
PublishNext ==
    \E t \in Threads :
        \/ CallInstance(t) \/ CallInitializeSized(t)
        \/ InstanceCheck(t) \/ InitializeCheck(t) \/ RegistryGet(t)
        \/ InitializeBuildSized(t) \/ InitializePut(t)
        \/ Return(t)
SpecPublish == SeqInit /\ [][PublishNext]_vars

\* initialize with the pool stored before it is complete: the failure
\* leaves it in the registry.
InitializeFailsStored(t) ==
    /\ pc[t] = "ini_build"
    /\ \E e \in {"EngineError", "ConnectError"} : out' = [out EXCEPT ![t] = e]
    /\ registry' = [registry EXCEPT ![arg[t]] = nbuilt[arg[t]] + 1]
    /\ Goto(t, "done")
    /\ UNCHANGED <<rotVars, op, rpc, arg, lmax, lidx, ret, cur, histVars, poolVars,
                   nbuilt, engine>>

\* initialize: pool.create_db_engine() raises (create_engine refuses the
\* connection string) or a pool.create_connection() of the loop raises
\* (engine.connect() cannot reach the database).  Nothing catches it: the
\* exception leaves initialize before POOLS[key] = pool, and the pool
\* under construction is dropped.
InitializeFails(t) ==
    /\ pc[t] = "ini_build"
    /\ \E e \in {"EngineError", "ConnectError"} : out' = [out EXCEPT ![t] = e]
    /\ Goto(t, "done")
    /\ UNCHANGED <<rotVars, op, rpc, arg, lmax, lidx, ret, cur, histVars, poolVars, regVars>>

\* Threads asking the registry for pools whose construction can fail.
RegFailNext == \E t \in Threads : RegStep(t) \/ InitializeFails(t) \/ Return(t)
SpecRegFail == SeqInit /\ [][RegFailNext]_vars

\* -------------------------------------------------------------- engine

\* Engines one pool builds in a run.
MaxBuilds == 2

\* ConnectionPool.create_db_engine(recreate): arg is 1 for recreate=True.
\* A rebuild is asked for only while the run has engines left to build.
CallCreateDbEngine(t) ==
    /\ pc[t] = "idle"
    /\ \E recreate \in {0, 1} :
          /\ recreate = 1 => engine < MaxBuilds
          /\ arg' = [arg EXCEPT ![t] = recreate]
    /\ op' = [op EXCEPT ![t] = "engine"]
    /\ Goto(t, "en_acquire")
    /\ UNCHANGED <<rotVars, rpc, lmax, lidx, out, ret, cur, histVars, poolVars, regVars>>

\* ConnectionPool.create_connection(raw_connection_only=True)
CallCreateRaw(t) ==
    /\ pc[t] = "idle"
    /\ op' = [op EXCEPT ![t] = "connect"]
    /\ Goto(t, "ce_check")
    /\ UNCHANGED <<rotVars, rpc, arg, lmax, lidx, out, ret, cur, histVars, poolVars, regVars>>

\* create_connection: if self._engine is None: self.create_db_engine()
EngineCheck(t) ==
    /\ pc[t] = "ce_check"
    /\ IF engine = 0
       THEN Goto(t, "en_acquire") /\ rpc' = [rpc EXCEPT ![t] = "ce_connect"]
       ELSE Goto(t, "ce_connect") /\ UNCHANGED rpc
    /\ UNCHANGED <<rotVars, op, arg, lmax, lidx, out, ret, cur, histVars, poolVars, regVars>>

\* create_db_engine: with self._lock
EngineAcquire(t) ==
    /\ pc[t] = "en_acquire"
    /\ poolLock = Free
    /\ poolLock' = t
    /\ Goto(t, "en_test")
    /\ UNCHANGED <<rotVars, op, rpc, arg, lmax, lidx, out, ret, cur, histVars, regVars,
                   hlock, inUse, closed, txn, nhandles, factoryUp>>

\* create_db_engine: not (self._engine is not None and not recreate)
NeedsBuildAlways(e, recreate) == TRUE
NeedsBuild(e, recreate) == e = 0 \/ recreate = 1

\* create_db_engine: return the engine there is, or go on to build one
EngineTest(t) ==
    /\ pc[t] = "en_test"
    /\ IF NeedsBuild(engine, arg[t])
       THEN Goto(t, "en_build") /\ UNCHANGED <<out, ret>>
       ELSE /\ Goto(t, "en_release")
            /\ out' = [out EXCEPT ![t] = "value"]
            /\ ret' = [ret EXCEPT ![t] = engine]
    /\ UNCHANGED <<rotVars, op, rpc, arg, lmax, lidx, cur, histVars, poolVars, regVars>>

\* create_db_engine: self._engine = create_engine(...); return self._engine
EngineBuild(t) ==
    /\ pc[t] = "en_build"
    /\ engine' = engine + 1
    /\ out' = [out EXCEPT ![t] = "value"]
    /\ ret' = [ret EXCEPT ![t] = engine + 1]
    /\ Goto(t, "en_release")
    /\ UNCHANGED <<rotVars, op, rpc, arg, lmax, lidx, cur, histVars, poolVars,
                   registry, nbuilt>>

\* create_db_engine: leaving `with self._lock:`, back to the caller
EngineRelease(t) ==
    /\ pc[t] = "en_release"
    /\ poolLock' = Free
    /\ Goto(t, rpc[t])
    /\ UNCHANGED <<rotVars, op, rpc, arg, lmax, lidx, out, ret, cur, histVars, regVars,
                   hlock, inUse, closed, txn, nhandles, factoryUp>>

\* create_connection: return self._engine.connect(); ret is the engine
\* the connection comes from, and None has no connect
EngineConnect(t) ==
    /\ pc[t] = "ce_connect"
    /\ out' = [out EXCEPT ![t] = IF engine = 0 THEN "AttributeError" ELSE "value"]
    /\ ret' = [ret EXCEPT ![t] = engine]
    /\ rpc' = [rpc EXCEPT ![t] = "done"]
    /\ Goto(t, "done")
    /\ UNCHANGED <<rotVars, op, arg, lmax, lidx, cur, histVars, poolVars, regVars>>

EngineStep(t) ==
    \/ CallCreateDbEngine(t)
    \/ CallCreateRaw(t)
    \/ EngineCheck(t)
    \/ EngineAcquire(t)
    \/ EngineTest(t)
    \/ EngineBuild(t)
    \/ EngineRelease(t)
    \/ EngineConnect(t)

\* Threads calling create_db_engine and create_connection on a pool that
\* has just been constructed: no engine yet, no handle.
EngineNext == \E t \in Threads : EngineStep(t) \/ Return(t)
SpecEngine == SeqInit /\ [][EngineNext]_vars

\* ------------------------------------------------- rotation properties

Quiet == \A t \in Threads : pc[t] = "idle"
RaisedIndexError(t) ==
    pc[t] = "done" /\ op[t] \in {"peek", "cycle"} /\ out[t] = "IndexError"

\* C4: peek() and cycle() never index outside the list while other
\* threads add and delete: no peek or cycle ends in an IndexError.
C4_NoIndexErrorConcurrent == \A t \in Threads : ~RaisedIndexError(t)

\* C5: from a rotation of K handles whose cursor was 0 when it was last
\* changed, the n-th cycle() call in a row (n = 1..K+1 and on) returns the
\* handle at position ((n - 1) mod K) of the insertion order.
C5_RoundRobin ==
    (/\ pc[1] = "done" /\ op[1] = "cycle"
     /\ base = 0 /\ ncyc < MaxCalls /\ Len(items) >= 1)
    => (out[1] = "value" /\ ret[1] = items[(ncyc % Len(items)) + 1])
C5_Witness ==
    /\ pc[1] = "done" /\ op[1] = "cycle" /\ base = 0
    /\ Len(items) >= 2 /\ ncyc = Len(items)
    /\ out[1] = "value" /\ ret[1] = items[1]

\* C6: between operations the cursor is a valid index, 0 <= cursor < size,
\* or 0 when the rotation is empty.
C6_CursorValid ==
    Quiet => IF Len(items) = 0 THEN pointer = 0
             ELSE 0 <= pointer /\ pointer < Len(items)

\* C7: once an entry at the cursor position has been deleted, no later
\* peek() or cycle() raises IndexError.
C7_SafeDeleteAtCursor == delcur => ~RaisedIndexError(1)
C7_Witness ==
    /\ delcur /\ pc[1] = "done" /\ op[1] \in {"peek", "cycle"}
    /\ out[1] = "value" /\ Len(items) >= 1

\* ----------------------------------------------------- pool properties

\* C1: the rotation never holds more than max_pool_size handles.
C1_PoolBound == Len(items) <= MaxPoolSize
C1_Witness ==
    /\ Len(items) = MaxPoolSize
    /\ \E t \in Threads : op[t] = "cycle" /\ rpc[t] = "pl_release" /\ poolLock = t

\* Thread t is between a successful start_transaction on h and the end of
\* the matching commit_transaction / rollback_transaction.
Owns(t, h) == cur[t] = h /\ pc[t] \in {"in_txn", "tx_end"}

\* C2: no two callers are at once between a successful start_transaction
\* and the matching commit/rollback on the same handle.
C2_ExclusiveOwner ==
    \A h \in Handles : Cardinality({t \in Threads : Owns(t, h)}) <= 1
C2_Witness ==
    \E t \in Threads, u \in Threads :
        /\ t # u
        /\ Owns(t, cur[t])
        /\ pc[u] = "st_acquire" /\ cur[u] = cur[t]

\* The lock of h is held and its holder is no longer in start_transaction
\* or in a transaction on h: no thread will ever release it.
Abandoned(h) ==
    /\ hlock[h] # Free
    /\ ~(/\ cur[hlock[h]] = h
         /\ pc[hlock[h]] \in {"st_health", "sh_log", "st_begin", "in_txn", "tx_end"})

\* C3: no thread is blocked forever on a lock: no thread waits for a
\* handle lock that nobody will release.
C3_NoThreadBlockedForever ==
    \A t \in Threads : ~(pc[t] = "st_acquire" /\ Abandoned(cur[t]))

\* C9: when start_transaction finds the connection closed and the factory
\* can open connections, self-heal ends with the handle on an open
\* replacement connection, still in the rotation (size unchanged), and
\* start_transaction goes on to open the transaction.
C9_SelfHealOpensTransaction ==
    [][\A t \in Threads :
          (pc[t] = "sh_log" /\ factoryUp /\ pc'[t] # "sh_log")
          => (/\ pc'[t] \in {"st_begin", "in_txn"}
              /\ ~closed'[cur[t]]
              /\ items' = items)]_vars

\* C10: when start_transaction finds the connection closed and the factory
\* cannot open connections, the call fails and the rotation has lost
\* exactly that handle.
C10_FailedHealRemovesHandle ==
    [][\A t \in Threads :
          (pc[t] = "sh_log" /\ ~factoryUp /\ pc'[t] # "sh_log")
          => (/\ pc'[t] = "done"
              /\ out'[t] \notin {"none", "value", "None"}
              /\ Len(items') = Len(items) - 1
              /\ \A k \in 1..Len(items') : items'[k] # cur[t])]_vars

\* ------------------------------------------------- registry properties

\* C8: at most one pool is ever created for an endpoint key, and every
\* caller that asked for the key received the same pool.
C8_OnePoolPerKey ==
    /\ \A k \in Keys : nbuilt[k] <= 1
    /\ \A t \in Threads, u \in Threads :
          (pc[t] = "done" /\ pc[u] = "done" /\ arg[t] = arg[u]) => ret[t] = ret[u]

\* ------------------------------------------------- self-heal properties

\* C11: when self-heal fails inside start_transaction, the call fails with
\* the handle marked idle and its lock released.
C11_FailedHealReleasesLock ==
    [][\A t \in Threads :
          (pc[t] = "sh_log" /\ pc'[t] = "done")
          => (hlock'[cur[t]] = Free /\ ~inUse'[cur[t]])]_vars

\* C12: a handle whose self-heal has failed is out of the rotation for
\* good: no later get_connection hands it to a caller.
C12_FailedHandleNeverReturned ==
    [][\A t \in Threads, u \in Threads :
          (/\ pc[t] = "done" /\ out[t] = "TypeError"
           /\ pc[u] = "gc_return" /\ pc'[u] = "st_acquire")
          => cur'[u] # cur[t]]_vars

\* ------------------------------------------------------ scope properties

\* C13: a scope that began a transaction ends it on exit, by commit on a
\* normal exit and by rollback on an exception; after the exit the handle
\* is idle with its lock free, and the caller sees the scope end normally
\* or with the exception raised inside it.
C13_ScopeEndsTransaction ==
    [][\A t \in Threads :
          (pc[t] = "tx_end" /\ pc'[t] = "done")
          => (/\ txn'[cur[t]] = "ended"
              /\ ~inUse'[cur[t]]
              /\ hlock'[cur[t]] = Free
              /\ out'[t] \in {"committed", "rolledback"})]_vars

\* TransactionManager.__enter__ raised: the pool gave no handle,
\* get_connection raised, or start_transaction raised.
EnterFailed(t) ==
    /\ pc[t] = "done"
    /\ out[t] \notin {"committed", "rolledback", "TracebackAttributeError", "CommitError"}

\* C14: when the pool yields no handle or start_transaction fails, the
\* scope's entry raises, and the caller is left with no open transaction
\* and no handle lock.
C14_FailedEntryHoldsNothing ==
    \A t \in Threads :
        (EnterFailed(t) /\ cur[t] # NoHandle)
        => (hlock[cur[t]] # t /\ ~(txn[cur[t]] = "open" /\ inUse[cur[t]]))

\* ----------------------------------------------------- growth scenario

\* The pool of the scenario: max_pool_size 2, one initial handle.
GrowthScenario == MaxPoolSize = 2 /\ InitialPoolSize = 1

\* C15: in a pool with max 2 and initial 1, the first get_connection
\* returns handle 1; a second call made while handle 1 is busy grows the
\* pool and returns the new handle 2, size 2; the calls after that return
\* 1, 2, 1 in turn.
C15_GrowthScenario ==
    /\ [](GrowthScenario =>
            /\ Len(got) >= 1 => got[1] = 1
            /\ (Len(got) >= 2 /\ got[2] = 2) =>
                  \A n \in 3..Len(got) : got[n] = (IF n % 2 = 1 THEN 1 ELSE 2))
    /\ [][GrowthScenario =>
            \A t \in Threads :
               (pc[t] = "gc_return" /\ Len(got) = 1 /\ Len(got') = 2 /\ inUse[1])
               => (got'[2] = 2 /\ Len(items') = 2)]_vars
C15_Witness ==
    /\ GrowthScenario
    /\ got = <<1, 2, 1, 2, 1>>
    /\ items = <<1, 2>>

\* --------------------------------------------------- counter properties

\* C16: next(ceiling) returns the value held before the call; the value
\* becomes 0 if current + 1 > ceiling and current + 1 otherwise, so from a
\* value within 0..ceiling it steps through 0, 1, .., ceiling, 0, .. and
\* stays within 0..ceiling.
C16_NextReturnsThenAdvances ==
    [][op'[1] = "next" =>
          /\ lidx'[1] = pointer
          /\ pointer + 1 > lmax'[1] => pointer' = 0
          /\ pointer + 1 <= lmax'[1] => pointer' = pointer + 1
          /\ (0 <= pointer /\ pointer <= lmax'[1]) =>
                /\ pointer' = (pointer + 1) % (lmax'[1] + 1)
                /\ 0 <= pointer' /\ pointer' <= lmax'[1]]_vars
C16_Witness ==
    /\ op[1] = "next" /\ lmax[1] = 2
    /\ lidx[1] = 2 /\ pointer = 0

\* --------------------------------------------------- blocking properties

\* Thread u is in start_transaction at self._lock.acquire().
Waiting(u) == pc[u] = "st_acquire"

\* C17: start_transaction on a handle whose lock another caller holds
\* waits: it leaves the acquire only by taking the lock when it is free,
\* never by returning or raising; and once the lock is free a waiting
\* start_transaction goes on, unless another caller takes the lock first.
C17_StartTransactionBlocks ==
    /\ [][\A u \in Threads :
            (Waiting(u) /\ pc'[u] # "st_acquire")
            => (/\ hlock[cur[u]] = Free
                /\ hlock'[cur[u]] = u
                /\ pc'[u] = "st_health")]_vars
    /\ \A u \in Threads :
          (Waiting(u) /\ hlock[cur[u]] = Free)
          ~> (~Waiting(u) \/ hlock[cur[u]] # Free)
C17_Witness ==
    \E u \in Threads, t \in Threads :
        /\ u # t
        /\ Waiting(u) /\ hlock[cur[u]] = Free
        /\ pc[t] = "done" /\ cur[t] = cur[u]
        /\ out[t] \in {"committed", "rolledback"}

\* ----------------------------------------------- idle-handle properties

\* C18: rollback_transaction on a handle with no open transaction fails
\* or does nothing: no step of it changes a lock, a busy flag, a
\* transaction or the rotation; it never releases a lock another caller
\* holds.
C18_RollbackOnIdleChangesNothing ==
    [][\A t \in Threads :
          (/\ op[t] = "rollback" /\ pc[t] \in {"rb_txn", "rb_release"}
           /\ pc'[t] # pc[t]
           /\ out[t] # "theirs"
           /\ txn[arg[t]] # "open")
          => (/\ hlock' = hlock /\ inUse' = inUse
              /\ items' = items /\ pointer' = pointer)]_vars

\* ---------------------------------------------------------------------
\* C19: a commit_transaction or rollback_transaction that runs to its end
\* on a handle with an open transaction closes the transaction, clears the
\* busy flag and frees the lock; the handle is still in the rotation, and
\* no step of the call changes the rotation's content or its cursor.
C19_EndLeavesHandleIdleInRotation ==
    [][\A t \in Threads :
          /\ (pc[t] = "in_txn" /\ pc'[t] = "tx_end")
                => (/\ txn[cur[t]] = "open" /\ txn'[cur[t]] = "ended"
                    /\ items' = items /\ pointer' = pointer)
          /\ (pc[t] = "tx_end" /\ pc'[t] = "done")
                => (/\ txn'[cur[t]] = "ended"
                    /\ ~inUse'[cur[t]]
                    /\ hlock'[cur[t]] = Free
                    /\ \E i \in 1..Len(items') : items'[i] = cur[t]
                    /\ items' = items /\ pointer' = pointer)]_vars

\* a caller has committed or rolled back and its handle is idle, unlocked
\* and in the rotation
C19_Witness ==
    \E t \in Threads :
        /\ pc[t] = "done" /\ out[t] \in {"committed", "rolledback"}
        /\ txn[cur[t]] = "ended" /\ ~inUse[cur[t]] /\ hlock[cur[t]] = Free
        /\ \E i \in 1..Len(items) : items[i] = cur[t]

\* ---------------------------------------------------------------------
\* The condition of get_connection on the pool as it is in one state: the
\* rotation is empty, or it is below max_pool_size, the handle at the
\* cursor is busy and the pool lock is free.
GrowCondition ==
    \/ Len(items) = 0
    \/ /\ Len(items) < MaxPoolSize
       /\ PyInRange(items, pointer)
       /\ inUse[PyGet(items, pointer)]
       /\ poolLock = Free

\* The step in which get_connection decides for create_connection, the one
\* in which it decides for cycle(), and the one in which a handle is made.
GrowDecision(t) == pc[t] \in {"gc_empty", "gc_locked"} /\ pc'[t] = "pl_acquire"
CycleDecision(t) == pc[t] \in {"gc_size", "gc_in_use", "gc_locked"} /\ pc'[t] = "cy_len"
HandleCreated(t) == pc[t] = "cc_connect" /\ nhandles' = nhandles + 1

C21_DeleteByIndexAdjustsCursor ==
    [][\A t \in Threads :
          (pc[t] = "dl_del" /\ pc'[t] # pc[t]) =>
             LET c == lmax[t]
                 i == lidx[t]
                 n == Len(items)
             IN  /\ 0 <= i /\ i < n
                 /\ c <= n - 1
                 /\ items' = [k \in 1..(n - 1) |->
                                 IF k <= i THEN items[k] ELSE items[k + 1]]
                 /\ pointer' = (IF c >= i
                                THEN (IF c = n - 1 THEN 0 ELSE c - 1)
                                ELSE c)]_vars

\* a delete_by_index below the cursor, which was not at the end, has
\* moved the cursor one back
C21_Witness ==
    \E t \in Threads :
        /\ pc[t] = "release" /\ op[t] = "delete_by_index"
        /\ lmax[t] > lidx[t]
        /\ pointer = lmax[t] - 1
        /\ Len(items) >= 2

\* ---------------------------------------------------------------------
\* C22: the delete that removes the only handle of a rotation leaves the
\* list empty and the cursor at 0, and a peek() or cycle() that finds the
\* list empty returns None.
C22_DeleteSoleHandleResetsCursor ==
    [][\A t \in Threads :
          /\ (pc[t] = "dl_del" /\ pc'[t] # pc[t] /\ Len(items) = 1)
                => (items' = <<>> /\ pointer' = 0)
          /\ (pc[t] \in {"pk_len", "cy_len"} /\ pc'[t] # pc[t] /\ Len(items) = 0)
                => (out'[t] = "None" /\ ret'[t] = NoHandle)]_vars

\* ---------------------------------------------------------------------
\* C23: no thread is at the factory's connect, which opens a physical
\* connection, while it holds the pool lock or the rotation lock.
C23_NoLockAcrossConnect ==
    \A t \in Threads :
        pc[t] = "cc_connect" => (poolLock # t /\ itemsLock # t)

\* ---------------------------------------------------------------------
\* The steps of get_connection, create_connection and remove_connection.
AdminStep(t) == GetBody(t) \/ GetReturn(t) \/ RotStep(t)

\* What a thread inside them can be waiting for: the pool lock or the
\* rotation lock in another thread's hands, or, in this model, a handle
\* identity when MaxHandles have been handed out.
AdminWaits(t) ==
    \/ pc[t] = "pl_acquire" /\ poolLock # Free
    \/ pc[t] = "acquire" /\ itemsLock # Free
    \/ pc[t] = "cc_connect" /\ factoryUp /\ nhandles = MaxHandles

\* C24: no step of get_connection, create_connection or remove_connection
\* changes a handle's lock, and a thread inside them can always take its
\* next step unless it waits for the pool lock or the rotation lock,
\* whatever the handles' locks are; a thread in a transaction can always
\* commit or roll back, and one that has can always release its handle,
\* whoever holds the pool lock or the rotation lock.
C24_AdministrationAndTransactionsIndependent ==
    /\ [][\A t \in Threads : (InGet(t) /\ pc'[t] # pc[t]) => hlock' = hlock]_vars
    /\ [](\A t \in Threads :
             /\ InGet(t) => (AdminWaits(t) \/ ENABLED AdminStep(t))
             /\ pc[t] = "in_txn" => (ENABLED Commit(t) /\ ENABLED Rollback(t))
             /\ pc[t] = "tx_end" => ENABLED EndRelease(t))

\* a thread is in a transaction on the only handle of the rotation while
\* another holds the pool lock and the rotation lock
C24_Witness ==
    \E t, u \in Threads :
        /\ pc[u] = "in_txn"
        /\ poolLock = t /\ itemsLock = t
        /\ \A h \in InRotation : txn[h] = "open" /\ hlock[h] = u
        /\ Len(items) > 0

\* ---------------------------------------------------------------------
\* A removal is half done: thread t has moved the cursor in
\* _delete_by_index and has not yet deleted the handle from the list.
HalfRemoved(t) == pc[t] = "dl_del" /\ pointer # lmax[t]

\* Thread u reads the cursor, in peek() or cycle() (get_connection calls
\* both); the length alone does not tell the two halves apart.
Observes(u) == pc[u] \in {"pk_get", "cy_next"} /\ pc'[u] # pc[u]

\* C25: while a remove_connection has adjusted the cursor and not yet
\* taken the handle out of the list, no other thread reads the cursor in
\* peek(), cycle() or get_connection().
C25_RemovalAtomicForObservers ==
    [][\A t, u \in Threads :
          (t # u /\ op[t] = "delete" /\ rpc[t] = "pl_release" /\ HalfRemoved(t))
             => ~Observes(u)]_vars

\* ---------------------------------------------------------------------
\* C26: the engine of a pool is replaced only by a create_db_engine that
\* finds none or was called with recreate=True, so calls without recreate
\* build at most one engine, the first; every create_db_engine returns
\* the engine the pool holds at that moment, and every create_connection
\* connects through an engine, the one the pool holds.
C26_EngineBuiltOnce ==
    [][\A t \in Threads :
          /\ (pc[t] = "en_build" /\ pc'[t] # pc[t])
                => (engine = 0 \/ arg[t] = 1)
          /\ engine' # engine
                => \E u \in Threads : pc[u] = "en_build" /\ pc'[u] # pc[u]
          /\ (pc[t] \in {"en_test", "en_build", "ce_connect"} /\ out'[t] # out[t])
                => (out'[t] = "value" /\ ret'[t] = engine' /\ engine' # 0)]_vars

\* two calls without recreate have met on a fresh pool: one has built the
\* engine, the other has come out of create_db_engine with the same one
C26_Witness ==
    \E t, u \in Threads :
        /\ t # u
        /\ op[t] = "engine" /\ arg[t] = 0 /\ pc[t] = "done" /\ ret[t] = 1
        /\ op[u] = "connect" /\ pc[u] = "ce_connect" /\ rpc[u] = "ce_connect"
        /\ engine = 1

\* ---------------------------------------------------------------------
\* C27: no step of peek() changes the list or the cursor, and peek()
\* returns None on an empty list and otherwise the entry the cursor
\* designates (as Python indexes: -1 is the last); add(handle) puts the
\* handle at the end of the list, and no step of it changes the cursor.
C27_PeekAndAddFrame ==
    [][\A t \in Threads :
          (pc'[t] # pc[t]) =>
            /\ op[t] = "peek" => (items' = items /\ pointer' = pointer)
            /\ (op[t] = "peek" /\ pc'[t] = "done") =>
                  IF Len(items) = 0
                  THEN out'[t] = "None" /\ ret'[t] = NoHandle
                  ELSE /\ out'[t] = "value"
                       /\ ret'[t] = items[IF pointer >= 0 THEN pointer + 1
                                          ELSE Len(items) + pointer + 1]
            /\ op[t] = "add" => pointer' = pointer
            /\ (op[t] = "add" /\ pc[t] = "ad_append")
                  => items' = Append(items, arg[t])
            /\ (op[t] = "add" /\ pc[t] # "ad_append") => items' = items]_vars

\* a peek() has returned the handle at a cursor that is not at the front
C27_Witness ==
    \E t \in Threads :
        /\ op[t] = "peek" /\ pc[t] = "done" /\ out[t] = "value"
        /\ pointer >= 1
        /\ ret[t] = items[pointer + 1]

\* ---------------------------------------------------------------------
\* C28: a self-heal that fails leaves the rotation one handle shorter and
\* constructs no handle in its place; a get_connection that then finds
\* the rotation empty takes the grow path, and the handle it constructs
\* is the only one of the rotation when the call returns it.
C28_FailedHealShrinksUntilRegrown ==
    [][\A t \in Threads :
          /\ (pc[t] = "sh_log" /\ pc'[t] = "done")
                => (nhandles' = nhandles /\ Len(items') = Len(items) - 1)
          /\ (pc[t] = "gc_empty" /\ pc'[t] # pc[t] /\ Len(items) = 0)
                => GrowDecision(t)
          /\ (pc[t] = "ad_append" /\ rpc[t] = "pl_release" /\ pc'[t] # pc[t]
              /\ Len(items) = 0)
                => items' = <<arg[t]>>]_vars

\* ---------------------------------------------------------------------
\* C29: no step takes out of the rotation a handle that has a transaction
\* open, between a successful start_transaction and its commit or
\* rollback.
C29_NoRemovalInTransaction ==
    [][\A h \in Handles :
          (/\ \E k \in 1..Len(items) : items[k] = h
           /\ \A k \in 1..Len(items') : items'[k] # h)
             => txn[h] # "open"]_vars

\* ---------------------------------------------------------------------
\* C30: an initialize whose engine or initial connection fails ends with
\* that exception and leaves the registry as it was, and an instance() or
\* initialize() that finds no entry for its key goes on to build a pool.
C30_FailedInitializeLeavesNoEntry ==
    [][\A t \in Threads :
          /\ (pc[t] = "ini_build" /\ pc'[t] = "done")
                => (/\ out'[t] \in {"EngineError", "ConnectError"}
                    /\ ret'[t] = NoHandle
                    /\ registry' = registry)
          /\ (pc[t] = "in_check" /\ pc'[t] # pc[t] /\ registry[arg[t]] = 0)
                => pc'[t] = "ini_check"
          /\ (pc[t] = "ini_check" /\ pc'[t] # pc[t] /\ registry[arg[t]] = 0)
                => pc'[t] = "ini_build"]_vars

\* an initialization has failed for a key, the registry has no entry for
\* it, and an instance() call for the same key is building a pool
C30_Witness ==
    \E t, u \in Threads :
        /\ pc[t] = "done" /\ out[t] \in {"EngineError", "ConnectError"}
        /\ registry[arg[t]] = 0
        /\ op[u] = "instance" /\ arg[u] = arg[t] /\ pc[u] = "ini_build"

\* ------------------------------------------------ error-path properties

\* C31: every exit of start_transaction that does not return a connection
\* (the health check failing, self_heal raising, begin() raising) leaves
\* the handle's lock released and its busy flag false.
C31_FailedStartReleasesHandle ==
    [][\A t \in Threads :
          (pc[t] \in {"st_health", "sh_log", "st_begin"} /\ pc'[t] = "done")
          => (hlock'[cur[t]] = Free /\ ~inUse'[cur[t]])]_vars

\* C32: commit_transaction and rollback_transaction release the handle's
\* lock and clear the busy flag on every exit, the exit by an exception of
\* the underlying commit or rollback included.
C32_EndReleasesEvenWhenItRaises ==
    [][\A t \in Threads :
          (pc[t] \in {"in_txn", "tx_end"} /\ pc'[t] = "done")
          => (hlock'[cur[t]] = Free /\ ~inUse'[cur[t]])]_vars

\* C33: close_transaction closes the physical connection only while its
\* caller still owns the handle: it never closes a connection on which
\* another thread has opened a transaction in the meantime.
C33_CloseOnlyWhileOwner ==
    [][\A t \in Threads :
          (pc[t] = "ct_close" /\ pc'[t] = "done")
          => ~\E u \in Threads \ {t} :
                 cur[u] = cur[t] /\ pc[u] = "in_txn" /\ hlock[cur[t]] = u]_vars

\* ------------------------------------------------- order after deletion

\* C34: a deletion keeps the round-robin order of the remaining handles:
\* when the deleted entry is not the one at the cursor, the handle at the
\* cursor is the same before and after; when it is the one at the cursor,
\* its successor in the rotation is at the cursor afterwards.  (The rest of
\* the sequence follows, the list keeping its order.)
C34_DeletePreservesRoundRobin ==
    [][(/\ pc[1] = "dl_del" /\ pc'[1] # "dl_del"
        /\ 0 <= lmax[1] /\ lmax[1] < Len(items)
        /\ Len(items) >= 2)
       => (/\ PyInRange(items', pointer')
           /\ PyGet(items', pointer') =
                 (IF lmax[1] = lidx[1]
                  THEN items[((lmax[1] + 1) % Len(items)) + 1]
                  ELSE items[lmax[1] + 1]))]_vars

\* --------------------------------------------- get_connection's result

\* C35: with a factory that succeeds, get_connection never raises and
\* never returns None, whatever get_connection calls and removals run
\* beside it.
C35_GetConnectionReturnsHandle ==
    \A t \in Threads : (pc[t] = "gc_return" /\ factoryUp) => out[t] = "value"

\* ------------------------------------------------- busy flag and lock

\* C36: in every reachable state a handle's busy flag is true only while
\* the handle's lock is held.
C36_BusyOnlyWhileLocked ==
    \A h \in Handles : inUse[h] => hlock[h] # Free

\* ---------------------------------------------------------- lock order

\* C37: locks are taken in the order handle, pool, rotation, counter: no
\* thread waits for a handle lock while it holds the pool lock or the
\* rotation lock, and no thread waits for the pool lock while it holds the
\* rotation lock.  (The counter's lock is taken and released within one
\* step of the counter, in which nothing else is acquired.)
C37_LockOrder ==
    \A t \in Threads :
        /\ pc[t] = "st_acquire" => (poolLock # t /\ itemsLock # t)
        /\ pc[t] \in {"pl_acquire", "en_acquire"} => itemsLock # t
        /\ itemsLock = t => pc[t] \notin {"st_acquire", "pl_acquire", "en_acquire"}

\* a thread waits for the pool lock while another holds the pool lock and,
\* taken inside it, the rotation lock
C37_Witness ==
    \E t \in Threads, u \in Threads :
        /\ t # u
        /\ pc[t] = "pl_acquire"
        /\ poolLock = u /\ itemsLock = u

\* ---------------------------------------------------------- publication

\* C38: a pool enters the registry only by the last step of initialize,
\* after its engine and its initial handles exist: at that step its size
\* is min(initial_pool_size, max_pool_size); and a pool a caller obtains
\* from the registry is one that was stored there.
C38_PublishedPoolIsComplete ==
    /\ [][\A k \in Keys :
            registry'[k] # registry[k]
            => \E t \in Threads :
                  /\ pc[t] = "ini_put" /\ pc'[t] = "done" /\ arg[t] = k
                  /\ registry'[k] = ret[t]
                  /\ cur[t] = (IF op[t] = "instance"
                               THEN Min(InitialPoolSize, MaxPoolSize)
                               ELSE Min(lidx[t], lmax[t]))]_vars
    /\ [][\A t \in Threads :
            (pc[t] = "rg_get" /\ pc'[t] = "done")
            => (ret'[t] # 0 /\ ret'[t] = registry[arg[t]])]_vars

\* a pool built with more initial handles than its cap has been published
\* with the cap as its size, and another caller has obtained it
C38_Witness ==
    \E t, u \in Threads :
        /\ pc[t] = "done" /\ op[t] = "initialize" /\ out[t] = "value"
        /\ lidx[t] > lmax[t] /\ cur[t] = lmax[t]
        /\ registry[arg[t]] = ret[t]
        /\ pc[u] = "done" /\ op[u] = "instance"
        /\ arg[u] = arg[t] /\ ret[u] = ret[t]

\* ------------------------------------------------ transaction reference

\* C39: in every reachable state a handle that is idle (lock free, busy
\* flag false) holds no transaction reference: commit_transaction and
\* rollback_transaction have reset it to None.
C39_IdleHandleHasNoTransaction ==
    \A h \in Handles : (hlock[h] = Free /\ ~inUse[h]) => txn[h] = "none"

====
